---- MODULE Spec2Model ----
(***************************************************************************)
(* Patrol/attack state machine of the two NPC archetypes of Library Run    *)
(* (Bully: js/sprites/Bully.js, OldMan: js/sprites/OldMan.js) together     *)
(* with the camera-relative spawn/exit geometry they depend on.            *)
(*                                                                         *)
(* One NPC of either archetype lives in a scene.  The scene clock fires a  *)
(* timer event in the first frame in which its delay has elapsed, the      *)
(* physics step moves the sprite by velocity * frame time, and then the    *)
(* scene calls update(player).  Times are milliseconds, positions pixels.  *)
(***************************************************************************)
EXTENDS Integers, Sequences, FiniteSets, TLC

\* ---------------------------------------------------------------------
\* Program constants
\* ---------------------------------------------------------------------
Bully_THROW_INTERVAL == 2000
Bully_PATROL_SPEED == 100
Bully_MAX_THROWS == 4
Bully_SPAWN_OFFSET == 100
Bully_SCREEN_LEFT == -80
Bully_SCREEN_RIGHT == 880
Bully_REENTRY_TIME_MIN == 4000
Bully_REENTRY_TIME_MAX == 7000
Bully_ENTRY_DELAY_MIN == 500
Bully_ENTRY_DELAY_MAX == 2000
Bully_ENTER_DELAY == 800
Bully_CHARGE_DELAY == 1000

OldMan_THROW_INTERVAL == 2500
OldMan_PATROL_SPEED == 60
OldMan_SPAWN_OFFSET == 100
OldMan_SCREEN_RIGHT == 880
OldMan_PATROL_TIME_MIN == 8000
OldMan_PATROL_TIME_MAX == 12000
OldMan_BACKPAIN_TIME_MIN == 6000
OldMan_BACKPAIN_TIME_MAX == 10000
OldMan_SQUIRREL_DELAY == 1000
OldMan_REENTRY_TIME_MIN == 5000
OldMan_REENTRY_TIME_MAX == 8000
OldMan_MAX_BACKPAIN_PER_PATROL == 1
OldMan_ENTRY_DELAY == 2000
OldMan_ENTER_DELAY == 1000
OldMan_PATROL_DELAY == 1500

\* buffer zone of the exit check in update()
EXIT_BUFFER == 100

\* ---------------------------------------------------------------------
\* Bounds of the model
\* ---------------------------------------------------------------------
\* number of traversals (startEntering calls) followed per NPC
MaxPatrols == 2
\* how far past the exit thresholds a sprite keeps walking
WorldMargin == 30
\* update() or a throw attempt finds the player missing at most this often
MaxAbsent == 1

ViewportWidths == {800}
\* the positions of the camera the model follows: at the start of the
\* street, and scrolled on by more than a viewport
CameraStops == {0, 1000}

\* ---------------------------------------------------------------------
\* Time base
\* ---------------------------------------------------------------------
RECURSIVE GCD(_, _)
GCD(a, b) == IF b = 0 THEN a ELSE GCD(b, a % b)

RECURSIVE GCDOf(_)
GCDOf(S) == IF S = {} THEN 0
            ELSE LET e == CHOOSE e \in S : TRUE IN GCD(e, GCDOf(S \ {e}))

\* every delay an archetype passes to the scene clock
Delays(kind) ==
    IF kind = "bully"
    THEN {Bully_THROW_INTERVAL, Bully_REENTRY_TIME_MIN, Bully_REENTRY_TIME_MAX,
          Bully_ENTRY_DELAY_MIN, Bully_ENTRY_DELAY_MAX, Bully_ENTER_DELAY,
          Bully_CHARGE_DELAY}
    ELSE {OldMan_THROW_INTERVAL, OldMan_PATROL_TIME_MIN, OldMan_PATROL_TIME_MAX,
          OldMan_BACKPAIN_TIME_MIN, OldMan_BACKPAIN_TIME_MAX,
          OldMan_SQUIRREL_DELAY, OldMan_REENTRY_TIME_MIN,
          OldMan_REENTRY_TIME_MAX, OldMan_ENTRY_DELAY, OldMan_ENTER_DELAY,
          OldMan_PATROL_DELAY}

\* frame time of the model: the coarsest step on which every delay of the
\* OldMan falls exactly.  The scene clock fires an event in the first frame
\* in which its delay has elapsed, so the 800 ms enter delay of the Bully
\* fires in the second frame after it was scheduled.
FrameMs == GCDOf(Delays("oldman"))

\* Phaser.Math.Between(lo, hi): the two ends of the range and the middle,
\* rounded down to the frame grid
Between(lo, hi) ==
    {lo, lo + ((hi - lo) \div (2 * FrameMs)) * FrameMs, hi}


\* ---------------------------------------------------------------------
\* State
\* ---------------------------------------------------------------------
VARIABLES
    npc,        \* the NPC sprite: its fields and the timer events it scheduled
    scrollX,    \* scene.cameras.main.scrollX
    width,      \* scene.cameras.main.width
    pc,         \* position in the frame: "timers" = the clock is firing due
                \* events, "frame" = update() has run, the next frame may start
    absent,     \* how often the player reference has been missing so far
    school,     \* the DottieBaconSchool zone: its fields, the bullies it
                \* created and the clock events it scheduled
    game,       \* the Student, the ConfidenceMeter connected to it and the
                \* BlueberrydaleLibrary zone
    paper,      \* one Newspaper in flight and the student it was thrown at
    meter,      \* a ConfidenceMeter called on its own
    item        \* one WordBubble, Squirrel, PowerUp or FallingCandyBar

vars == <<npc, scrollX, width, pc, absent, school, game, paper, meter, item>>

\* what lies outside the scene of the one NPC, outside the school zone,
\* outside the student's game and outside the flight of the Newspaper
outsideNpc == <<school, game, paper, meter, item>>
outsideSchool == <<npc, absent, game, paper, meter, item>>
outsideGame == <<npc, scrollX, width, absent, school, paper, meter, item>>
outsidePaper == <<npc, scrollX, width, absent, school, meter, item>>
outsideMeter ==
    <<npc, scrollX, width, pc, absent, school, game, paper, item>>
outsideItem == <<npc, scrollX, width, pc, absent, school, paper, meter>>

Attacking(kind) == IF kind = "bully" THEN "charging" ELSE "patrolling"
ThrowInterval(kind) ==
    IF kind = "bully" THEN Bully_THROW_INTERVAL ELSE OldMan_THROW_INTERVAL
SpawnOffset(kind) ==
    IF kind = "bully" THEN Bully_SPAWN_OFFSET ELSE OldMan_SPAWN_OFFSET

\* ---------------------------------------------------------------------
\* Camera-relative geometry
\* ---------------------------------------------------------------------
\* spawn position for an entry from the right / from the left
SpawnX(kind, fromRight, camX, camW) ==
    IF fromRight THEN camX + camW + SpawnOffset(kind)
    ELSE camX - SpawnOffset(kind)

\* variant: the direction of travel is not consulted
ExitDetected_AnySide(x, dir, camX, camW) ==
    x < camX - EXIT_BUFFER \/ x > camX + camW + EXIT_BUFFER

\* variant: the static screen bounds the classes used before the
\* camera-relative fix
ExitDetected_Static(x, dir, camX, camW) ==
    \/ dir = -1 /\ x < Bully_SCREEN_LEFT
    \/ dir = 1 /\ x > Bully_SCREEN_RIGHT

\* variant: a sprite standing on a threshold, on either side, has exited
ExitDetected_OnEdge(x, dir, camX, camW) ==
    x <= camX - EXIT_BUFFER \/ x >= camX + camW + EXIT_BUFFER

\* the exit test of update()
ExitDetected(x, dir, camX, camW) ==
    LET cameraLeft == camX - EXIT_BUFFER
        cameraRight == camX + camW + EXIT_BUFFER
        exitedLeft == dir = -1 /\ x < cameraLeft
        exitedRight == dir = 1 /\ x > cameraRight
    IN exitedLeft \/ exitedRight

\* ---------------------------------------------------------------------
\* Timer events on scene.time
\* ---------------------------------------------------------------------
\* name: which callback; rem: time left; period: 0 for delayedCall, the
\* delay for a looping addEvent; tracked: pushed to this.pendingTimers;
\* cur: this.throwTimer / this.phaseTimer still refers to it;
\* fromRight: the value the enter callback of Bully.startEntering captured
TimerEvent(name, delay, period, tracked, cur, fromRight) ==
    [name |-> name, rem |-> delay, period |-> period, tracked |-> tracked,
     cur |-> cur, fromRight |-> fromRight]

AddTimer(m, t) == [m EXCEPT !.timers = Append(@, t)]

\* assigning this.throwTimer / this.phaseTimer drops the old reference
Unref(ts, name) ==
    [i \in 1..Len(ts) |->
        IF ts[i].name = name THEN [ts[i] EXCEPT !.cur = FALSE] ELSE ts[i]]

RemoveAt(ts, i) == [j \in 1..(Len(ts) - 1) |-> IF j < i THEN ts[j] ELSE ts[j + 1]]

IsCurThrow(t) == t.name = "throw" /\ t.cur
IsCurPhase(t) == t.name = "phase" /\ t.cur
NotCurThrow(t) == ~IsCurThrow(t)
NotCurPhase(t) == ~IsCurPhase(t)
NotTracked(t) == ~t.tracked

\* ---------------------------------------------------------------------
\* Throwing
\* ---------------------------------------------------------------------
StopThrowingTimer(m) == [m EXCEPT !.timers = SelectSeq(@, NotCurThrow)]

\* a projectile (WordBubble / Newspaper) is created: spawned counts the
\* projectiles of this traversal, lastGap is the time since the previous one
\* (-1 for the first), sinceThrow restarts
SpawnProjectile(m) ==
    [m EXCEPT !.spawned = @ + 1, !.lastGap = m.sinceThrow, !.sinceThrow = 0]

ThrowWordBubble(m, student) ==
    IF m.isDestroyed \/ ~m.active \/ ~m.attached \/ ~student THEN m
    ELSE SpawnProjectile(m)

\* variant: the throw limit is not checked
TryToThrow_NoLimit(m, student) ==
    IF m.isDestroyed \/ ~m.active \/ ~m.attached THEN m
    ELSE IF m.currentState # "charging" THEN m
    ELSE IF ~student THEN m
    ELSE [ThrowWordBubble(m, student) EXCEPT !.throwCount = @ + 1]

\* variant: the throw is counted before the player is looked up
TryToThrow_CountFirst(m, student) ==
    IF m.isDestroyed \/ ~m.active \/ ~m.attached THEN m
    ELSE IF m.currentState # "charging" THEN m
    ELSE IF m.throwCount >= Bully_MAX_THROWS THEN m
    ELSE IF ~student THEN [m EXCEPT !.throwCount = @ + 1]
    ELSE [ThrowWordBubble(m, student) EXCEPT !.throwCount = @ + 1]

TryToThrow(m, student) ==
    IF m.isDestroyed \/ ~m.active \/ ~m.attached THEN m
    ELSE IF m.currentState # "charging" THEN m
    ELSE IF m.throwCount >= Bully_MAX_THROWS THEN m
    ELSE IF ~student THEN m
    ELSE [ThrowWordBubble(m, student) EXCEPT !.throwCount = @ + 1]

\* variant: the state is not consulted
TryToThrowNewspaper_AnyState(m, student) ==
    IF ~m.attached THEN m
    ELSE IF ~student THEN m
    ELSE SpawnProjectile(m)

\* this.scene is undefined once the sprite is destroyed: reading
\* this.scene.student then raises a TypeError and the callback ends
TryToThrowNewspaper(m, student) ==
    IF m.currentState # "patrolling" THEN m
    ELSE IF ~m.attached THEN m
    ELSE IF ~student THEN m
    ELSE SpawnProjectile(m)

BullyStartThrowingTimer(m, student) ==
    LET m1 == TryToThrow(m, student)
        m2 == [m1 EXCEPT !.timers = Unref(@, "throw")]
    IN AddTimer(m2, TimerEvent("throw", Bully_THROW_INTERVAL,
                               Bully_THROW_INTERVAL, FALSE, TRUE, FALSE))

OldManStartThrowingTimer(m) ==
    LET m2 == [m EXCEPT !.timers = Unref(@, "throw")]
    IN AddTimer(m2, TimerEvent("throw", OldMan_THROW_INTERVAL,
                               OldMan_THROW_INTERVAL, FALSE, TRUE, FALSE))


\* ---------------------------------------------------------------------
\* Bully patrol state machine
\* ---------------------------------------------------------------------
\* a traversal begins: the per-traversal observations (projectiles spawned,
\* time since the last one, time spent in the attacking state, squirrels
\* spawned, time since the back pain began, recovery from it) restart
NewTraversal(m) ==
    [m EXCEPT !.patrols = @ + 1, !.spawned = 0, !.sinceThrow = -1,
              !.lastGap = -1, !.attackTime = 0, !.stint = 0,
              !.squirrels = 0, !.sincePain = -1, !.recovered = FALSE]

BullyStartEntering(m) ==
    IF m.isDestroyed \/ ~m.active \/ ~m.attached THEN m
    ELSE LET fromRight == m.patrolDirection = -1
             m1 == [NewTraversal(m) EXCEPT !.currentState = "entering",
                                           !.throwCount = 0]
         IN AddTimer(m1, TimerEvent("enter", Bully_ENTER_DELAY, 0, TRUE,
                                    FALSE, fromRight))

\* the callback of the 800 ms enterTimer; fromRight was captured by the closure
BullyEnterCallback(m, fromRight, camX, camW) ==
    IF m.isDestroyed \/ ~m.active \/ ~m.attached THEN m
    ELSE LET m1 == [m EXCEPT !.x = SpawnX("bully", fromRight, camX, camW),
                             !.visible = TRUE,
                             !.active = TRUE,
                             !.vx = m.patrolDirection * Bully_PATROL_SPEED]
         IN AddTimer(m1, TimerEvent("charge", Bully_CHARGE_DELAY, 0, TRUE,
                                    FALSE, FALSE))

BullyStartCharging(m, student) ==
    BullyStartThrowingTimer([m EXCEPT !.currentState = "charging"], student)

\* the callback of the 1000 ms chargeTimer
BullyChargeCallback(m, student) ==
    IF m.isDestroyed \/ ~m.active \/ ~m.attached THEN m
    ELSE BullyStartCharging(m, student)

\* defined by the class but called from nowhere
BullyStartExiting(m) == StopThrowingTimer([m EXCEPT !.currentState = "exiting"])

BullyStartWaiting(m, waitTime) ==
    IF m.isDestroyed \/ ~m.active \/ ~m.attached THEN m
    ELSE LET m1 == [m EXCEPT !.currentState = "waiting",
                             !.vx = 0,
                             !.visible = FALSE]
         IN AddTimer(m1, TimerEvent("reentry", waitTime, 0, TRUE, FALSE, FALSE))

\* prepareReentry with the assignment of patrolDirection left out
BullyPrepareReentry_KeepDirection(m, enterFromRight, camX, camW) ==
    IF m.isDestroyed \/ ~m.active \/ ~m.attached THEN m
    ELSE BullyStartEntering(
            [m EXCEPT !.x = SpawnX("bully", enterFromRight, camX, camW)])

BullyPrepareReentry(m, enterFromRight, camX, camW) ==
    IF m.isDestroyed \/ ~m.active \/ ~m.attached THEN m
    ELSE BullyStartEntering(
            [m EXCEPT !.x = SpawnX("bully", enterFromRight, camX, camW),
                      !.patrolDirection = IF enterFromRight THEN -1 ELSE 1])

BullyUpdate(m, player, camX, camW, waitTime) ==
    IF ~player \/ ~m.active THEN m
    ELSE IF m.currentState \in {"charging", "exiting"}
            /\ ExitDetected(m.x, m.patrolDirection, camX, camW)
         THEN BullyStartWaiting(m, waitTime)
         ELSE m

\* Phaser's destroy(): the sprite leaves the scene and loses its body
Destroy(m) ==
    [m EXCEPT !.active = FALSE, !.visible = FALSE, !.attached = FALSE,
              !.vx = 0]

\* this.scene.tweens.killTweensOf(this) on a sprite that destroy() has
\* already detached: this.scene is undefined, a TypeError ends the call
SceneLost(m) == [m EXCEPT !.cleanupError = TRUE]

BullyCleanup(m) ==
    LET m1 == [m EXCEPT !.isDestroyed = TRUE]
        m2 == [m1 EXCEPT !.timers = SelectSeq(@, NotTracked)]
        m3 == StopThrowingTimer(m2)
    IN IF ~m.attached THEN SceneLost(m3) ELSE Destroy(m3)

\* ---------------------------------------------------------------------
\* OldMan patrol state machine.  No callback of the OldMan checks for
\* disposal; on a destroyed sprite a callback runs until its first use of
\* this.scene or this.body, where a TypeError ends it.
\* ---------------------------------------------------------------------
OldManStartEntering(m) ==
    LET m1 == [NewTraversal(m) EXCEPT !.currentState = "entering",
                                      !.backPainThisPatrol = 0]
    IN IF ~m.attached THEN m1
       ELSE AddTimer(m1, TimerEvent("enter", OldMan_ENTER_DELAY, 0, FALSE,
                                    FALSE, FALSE))

\* the callback of the 1000 ms timer of startEntering
OldManEnterCallback(m, camX, camW) ==
    IF ~m.attached THEN m
    ELSE LET m1 == [m EXCEPT !.x = SpawnX("oldman", m.patrolDirection = -1,
                                           camX, camW),
                             !.visible = TRUE,
                             !.active = TRUE,
                             !.vx = m.patrolDirection * OldMan_PATROL_SPEED]
         IN AddTimer(m1, TimerEvent("charge", OldMan_PATROL_DELAY, 0, FALSE,
                                    FALSE, FALSE))

OldManStartPatrolling(m, patrolDuration) ==
    LET m1 == [m EXCEPT !.currentState = "patrolling"]
    IN IF ~m.attached THEN m1
       ELSE LET m2 == OldManStartThrowingTimer(m1)
                m3 == [m2 EXCEPT !.timers = Unref(@, "phase")]
            IN AddTimer(m3, TimerEvent("phase", patrolDuration, 0, FALSE,
                                       TRUE, FALSE))

\* variant: the per-patrol back pain limit is not checked
OldManStartBackPain_NoLimit(m, recoveryTime) ==
    LET m1 == [m EXCEPT !.currentState = "backpain",
                        !.backPainCount = @ + 1,
                        !.backPainThisPatrol = @ + 1,
                        !.sincePain = 0]
    IN IF ~m.attached THEN m1
       ELSE LET m2 == StopThrowingTimer([m1 EXCEPT !.vx = 0])
                m3 == AddTimer(m2, TimerEvent("squirrel",
                           OldMan_SQUIRREL_DELAY, 0, FALSE, FALSE, FALSE))
            IN AddTimer(m3, TimerEvent("recover", recoveryTime, 0, FALSE,
                                       FALSE, FALSE))

OldManStartBackPain(m, recoveryTime) ==
    IF m.backPainThisPatrol >= OldMan_MAX_BACKPAIN_PER_PATROL THEN m
    ELSE LET m1 == [m EXCEPT !.currentState = "backpain",
                             !.backPainCount = @ + 1,
                             !.backPainThisPatrol = @ + 1,
                             !.sincePain = 0]
         IN IF ~m.attached THEN m1
            ELSE LET m2 == StopThrowingTimer([m1 EXCEPT !.vx = 0])
                     m3 == AddTimer(m2, TimerEvent("squirrel",
                                OldMan_SQUIRREL_DELAY, 0, FALSE, FALSE, FALSE))
                 IN AddTimer(m3, TimerEvent("recover", recoveryTime, 0, FALSE,
                                            FALSE, FALSE))

\* new Squirrel(this.scene, ...): squirrels counts the squirrels of this
\* traversal. On a destroyed OldMan this.scene is undefined and the
\* constructor of the sprite ends in a TypeError
SpawnSquirrel(m) ==
    IF ~m.attached THEN m ELSE [m EXCEPT !.squirrels = @ + 1]

\* variant: the state is not consulted
OldManSquirrelCallback_AnyState(m) == SpawnSquirrel(m)

\* the callback of the SQUIRREL_DELAY timer
OldManSquirrelCallback(m) ==
    IF m.currentState = "backpain" THEN SpawnSquirrel(m) ELSE m

OldManRecoverFromBackPain(m) ==
    IF ~m.attached THEN m
    ELSE [m EXCEPT !.vx = m.patrolDirection * OldMan_PATROL_SPEED,
                   !.currentState = "patrolling",
                   !.recovered = TRUE]

\* defined by the class but called from nowhere
OldManStartExiting(m) ==
    LET m1 == StopThrowingTimer([m EXCEPT !.currentState = "exiting"])
    IN [m1 EXCEPT !.timers = SelectSeq(@, NotCurPhase)]

OldManStartWaiting(m, waitTime) ==
    LET m1 == [m EXCEPT !.currentState = "waiting",
                        !.vx = 0,
                        !.visible = FALSE]
    IN AddTimer(m1, TimerEvent("reentry", waitTime, 0, FALSE, FALSE, FALSE))

OldManPrepareReentry(m, enterFromRight, camX, camW) ==
    IF ~m.attached THEN m
    ELSE OldManStartEntering(
            [m EXCEPT !.x = SpawnX("oldman", enterFromRight, camX, camW),
                      !.patrolDirection = IF enterFromRight THEN -1 ELSE 1])

OldManUpdate(m, player, camX, camW, waitTime) ==
    IF ~player \/ ~m.active THEN m
    ELSE IF m.currentState \in {"patrolling", "exiting"}
            /\ ExitDetected(m.x, m.patrolDirection, camX, camW)
         THEN OldManStartWaiting(m, waitTime)
         ELSE m

OldManCleanup(m) ==
    LET m1 == StopThrowingTimer(m)
        m2 == [m1 EXCEPT !.timers = SelectSeq(@, NotCurPhase)]
    IN IF ~m.attached THEN SceneLost(m2) ELSE Destroy(m2)


\* ---------------------------------------------------------------------
\* Construction
\* ---------------------------------------------------------------------
NewSprite(kind, x, dir, entryTimer) ==
    [kind |-> kind, currentState |-> "waiting", x |-> x, vx |-> 0,
     visible |-> TRUE, active |-> TRUE, attached |-> TRUE,
     isDestroyed |-> FALSE, patrolDirection |-> dir, throwCount |-> 0,
     backPainCount |-> 0, backPainThisPatrol |-> 0,
     spawned |-> 0, sinceThrow |-> -1, lastGap |-> -1, patrols |-> 0,
     attackTime |-> 0, stint |-> 0, cleanupError |-> FALSE,
     squirrels |-> 0, sincePain |-> -1, recovered |-> FALSE,
     timers |-> <<entryTimer>>]

BullyConstructor(startFromRight, entryDelay, camX, camW) ==
    NewSprite("bully", SpawnX("bully", startFromRight, camX, camW),
              IF startFromRight THEN -1 ELSE 1,
              TimerEvent("entry", entryDelay, 0, TRUE, FALSE, FALSE))

OldManConstructor ==
    NewSprite("oldman", OldMan_SCREEN_RIGHT + OldMan_SPAWN_OFFSET, -1,
              TimerEvent("entry", OldMan_ENTRY_DELAY, 0, FALSE, FALSE, FALSE))

\* a scene with one freshly constructed NPC of either archetype
NewScene ==
    /\ scrollX \in CameraStops
    /\ width \in ViewportWidths
    /\ pc = "frame"
    /\ \/ \E startFromRight \in BOOLEAN :
            \E entryDelay \in Between(Bully_ENTRY_DELAY_MIN,
                                      Bully_ENTRY_DELAY_MAX) :
                npc = BullyConstructor(startFromRight, entryDelay, scrollX, width)
       \/ npc = OldManConstructor

\* ---------------------------------------------------------------------
\* Student, ConfidenceMeter and BlueberrydaleLibrary: construction
\* ---------------------------------------------------------------------
Student_MOVE_SPEED == 200
Student_MAX_CONFIDENCE == 100
Student_STUMBLE_TIME == 400
Student_OFFSCREEN_X == -50
Newspaper_DAMAGE == 10
WordBubble_DAMAGE == 12
Squirrel_DAMAGE == 15
CandyBar_CONFIDENCE_BOOST == 15
PowerUp_CONFIDENCE_BOOST == 15
Library_ZONE_START == 15000
Library_APPROACH_DISTANCE == 500
Newspaper_HORIZONTAL_SPEED == 220
Newspaper_VERTICAL_SPEED == -200
Newspaper_GRAVITY == 400
Newspaper_BOUNDS_MARGIN == 100
Newspaper_THROW_OFFSET == 20
\* the height of the game canvas
Config_HEIGHT == 600

\* Student.setupStudent, new ConfidenceMeter(scene) and the constructor of
\* BlueberrydaleLibrary. connected: the scene has set student.confidenceMeter;
\* stumbles: the pending 400 ms delayedCalls of stumble(); sinceHit: the time
\* since the last takeDamage that returned true (-1: none yet); hitParity
\* flips with every such call; gameOvers counts the 'gameOver' events
\* emitted; paused: scene.physics.pause() has been called
NewGame(x, connected) ==
    [confidence |-> Student_MAX_CONFIDENCE, meter |-> Student_MAX_CONFIDENCE,
     connected |-> connected, isStumbling |-> FALSE, isDefeated |-> FALSE,
     hasTriggeredGameOver |-> FALSE, x |-> x, vx |-> 0, bounded |-> TRUE,
     stumbles |-> <<>>, sinceHit |-> -1, hitParity |-> FALSE,
     gameOvers |-> 0, isCreated |-> FALSE, hasWon |-> FALSE,
     paused |-> FALSE, victories |-> 0]

\* constructor of the zone: nothing created, no occurrence yet. Beyond the
\* fields of the class the record keeps, for every Bully the zone has
\* constructed, the occurrence that scheduled it (made), the zone starts for
\* which createZone has run (starts), the occurrences whose cleanup has run
\* (swept) and whether cleanup() has been called (cleaned)
\* no Newspaper is in flight; the scene of the one NPC holds no school zone
\* and no student of its own
NoNewspaper == <<>>
NoMeter == <<>>
NoItem == <<>>
NoSchool == <<>>
NoGame == <<>>

DottieBaconSchoolConstructor ==
    [isCreated |-> FALSE, isActive |-> FALSE, currentZoneNumber |-> 0,
     bullies |-> <<>>, made |-> <<>>, clock |-> <<>>, starts |-> <<>>,
     swept |-> {}, cleaned |-> FALSE]

Init ==
    /\ NewScene
    /\ absent = 0
    /\ school = NoSchool
    /\ game = NoGame
    /\ paper = NoNewspaper
    /\ meter = NoMeter
    /\ item = NoItem

\* ---------------------------------------------------------------------
\* The frame loop
\* ---------------------------------------------------------------------
WorldMin == 0 - EXIT_BUFFER - WorldMargin
MaxOf(S) == CHOOSE e \in S : \A f \in S : f <= e
WorldMax ==
    MaxOf(CameraStops) + MaxOf(ViewportWidths) + EXIT_BUFFER + WorldMargin

\* the player reference handed to a call on a live NPC: present, or missing
\* while the budget of missing references lasts
PlayerRefs == IF absent < MaxAbsent /\ npc.attached THEN BOOLEAN ELSE {TRUE}
Missed(player) == IF player THEN absent ELSE absent + 1

Min(a, b) == IF a < b THEN a ELSE b

Due(m) == {i \in 1..Len(m.timers) : m.timers[i].rem <= 0}

\* dt ms pass: the clock advances every event, the body moves the sprite.
\* attackTime is the time spent in the attacking state in this traversal,
\* stint the time for which the NPC has been in it without interruption
\* (not counted beyond one frame more than a throw interval)
Advance(m, dt) ==
    [m EXCEPT !.timers = [i \in 1..Len(@) |-> [@[i] EXCEPT !.rem = @ - dt]],
              !.x = IF m.attached THEN @ + (m.vx * dt) \div 1000 ELSE @,
              !.sinceThrow = IF @ < 0 \/ ~m.attached THEN @
                             ELSE Min(@ + dt, ThrowInterval(m.kind)),
              !.sincePain = IF @ < 0 \/ ~m.attached THEN @
                            ELSE Min(@ + dt, OldMan_SQUIRREL_DELAY),
              !.attackTime = IF m.attached
                                /\ m.currentState = Attacking(m.kind)
                             THEN @ + dt ELSE @,
              !.stint = IF ~m.attached THEN @
                        ELSE IF m.currentState = Attacking(m.kind)
                        THEN Min(@ + dt, ThrowInterval(m.kind) + FrameMs)
                        ELSE 0]

MinOf(S) == CHOOSE e \in S : \A f \in S : e <= f

\* the time to the next frame in which something can happen: one frame
\* while the sprite lives; once it is destroyed it neither moves nor is
\* updated, and the frames up to the next timer event pass at once
FrameStep(m) ==
    IF m.attached \/ m.timers = <<>> THEN FrameMs
    ELSE LET next == MinOf({m.timers[i].rem : i \in 1..Len(m.timers)})
         IN IF next > FrameMs THEN next ELSE FrameMs

Tick ==
    /\ pc = "frame"
    /\ LET m == Advance(npc, FrameStep(npc))
       IN /\ m.x = npc.x \/ (npc.x >= WorldMin /\ npc.x <= WorldMax)
          /\ npc' = m
    /\ pc' = "timers"
    /\ UNCHANGED <<scrollX, width, absent, outsideNpc>>

\* the event leaves the clock (delayedCall) or starts its next period (loop)
Taken(m, i) ==
    IF m.timers[i].period = 0
    THEN [m EXCEPT !.timers = RemoveAt(@, i)]
    ELSE [m EXCEPT !.timers[i].rem = @ + m.timers[i].period]

\* the clock fires the due events in the order in which they were added
DueNamed(name) ==
    {i \in Due(npc) : npc.timers[i].name = name /\ \A j \in Due(npc) : i <= j}

\* the waiting time startWaiting draws: the two ends of
\* Phaser.Math.Between(REENTRY_TIME_MIN, REENTRY_TIME_MAX)
ReentryWait(kind) ==
    IF kind = "bully"
    THEN {Bully_REENTRY_TIME_MIN, Bully_REENTRY_TIME_MAX}
    ELSE {OldMan_REENTRY_TIME_MIN, OldMan_REENTRY_TIME_MAX}

\* the constructor's entry timer fires
FireEntry ==
    /\ pc = "timers"
    /\ \E i \in DueNamed("entry") :
        LET m == Taken(npc, i)
        IN npc' = IF npc.kind = "bully"
                  THEN (IF m.isDestroyed \/ ~m.active \/ ~m.attached THEN m
                        ELSE BullyStartEntering(m))
                  ELSE OldManStartEntering(m)
    /\ UNCHANGED <<scrollX, width, pc, absent, outsideNpc>>

FireEnter ==
    /\ pc = "timers"
    /\ \E i \in DueNamed("enter") :
        LET m == Taken(npc, i)
        IN npc' = IF npc.kind = "bully"
                  THEN BullyEnterCallback(m, npc.timers[i].fromRight,
                                          scrollX, width)
                  ELSE OldManEnterCallback(m, scrollX, width)
    /\ UNCHANGED <<scrollX, width, pc, absent, outsideNpc>>

FireCharge ==
    /\ pc = "timers"
    /\ \E i \in DueNamed("charge") :
        LET m == Taken(npc, i)
        IN IF npc.kind = "bully"
           THEN \E student \in PlayerRefs :
                    /\ npc' = BullyChargeCallback(m, student)
                    /\ absent' = Missed(student)
           ELSE \E patrolDuration \in Between(OldMan_PATROL_TIME_MIN,
                                              OldMan_PATROL_TIME_MAX) :
                    /\ npc' = OldManStartPatrolling(m, patrolDuration)
                    /\ absent' = absent
    /\ UNCHANGED <<scrollX, width, pc, outsideNpc>>

FireThrow ==
    /\ pc = "timers"
    /\ \E i \in DueNamed("throw") :
        \E student \in PlayerRefs :
            LET m == Taken(npc, i)
            IN /\ npc' = IF npc.kind = "bully" THEN TryToThrow(m, student)
                         ELSE TryToThrowNewspaper(m, student)
               /\ absent' = Missed(student)
    /\ UNCHANGED <<scrollX, width, pc, outsideNpc>>

FirePhase ==
    /\ pc = "timers"
    /\ \E i \in DueNamed("phase") :
        \E recoveryTime \in Between(OldMan_BACKPAIN_TIME_MIN,
                                    OldMan_BACKPAIN_TIME_MAX) :
            npc' = OldManStartBackPain(Taken(npc, i), recoveryTime)
    /\ UNCHANGED <<scrollX, width, pc, absent, outsideNpc>>

FireSquirrel ==
    /\ pc = "timers"
    /\ \E i \in DueNamed("squirrel") :
        npc' = OldManSquirrelCallback(Taken(npc, i))
    /\ UNCHANGED <<scrollX, width, pc, absent, outsideNpc>>

FireRecover ==
    /\ pc = "timers"
    /\ \E i \in DueNamed("recover") :
        npc' = OldManRecoverFromBackPain(Taken(npc, i))
    /\ UNCHANGED <<scrollX, width, pc, absent, outsideNpc>>

FireReentry ==
    /\ pc = "timers"
    /\ npc.patrols < MaxPatrols
    /\ \E i \in DueNamed("reentry") :
        \E enterFromRight \in BOOLEAN :
            LET m == Taken(npc, i)
            IN npc' = IF npc.kind = "bully"
                      THEN BullyPrepareReentry(m, enterFromRight, scrollX, width)
                      ELSE OldManPrepareReentry(m, enterFromRight, scrollX, width)
    /\ UNCHANGED <<scrollX, width, pc, absent, outsideNpc>>

\* the scene's update() calls npc.update(player) once every due event has fired
Update ==
    /\ pc = "timers"
    /\ Due(npc) = {}
    /\ \E player \in PlayerRefs :
        \E waitTime \in ReentryWait(npc.kind) :
            /\ npc' = IF npc.kind = "bully"
                      THEN BullyUpdate(npc, player, scrollX, width, waitTime)
                      ELSE OldManUpdate(npc, player, scrollX, width, waitTime)
            /\ absent' = Missed(player)
    /\ pc' = "frame"
    /\ UNCHANGED <<scrollX, width, outsideNpc>>

\* the owner disposes the NPC between two frames, or calls cleanup() on an
\* NPC it has disposed before
Cleanup ==
    /\ pc = "frame"
    /\ npc' = IF npc.kind = "bully" THEN BullyCleanup(npc)
              ELSE OldManCleanup(npc)
    /\ UNCHANGED <<scrollX, width, pc, absent, outsideNpc>>

\* between two frames the camera follows the player, who runs to the right
ScrollCamera ==
    /\ pc = "frame"
    /\ npc.attached
    /\ \E s \in CameraStops : s > scrollX /\ scrollX' = s
    /\ UNCHANGED <<npc, width, pc, absent, outsideNpc>>

Next ==
    \/ Tick
    \/ FireEntry
    \/ FireEnter
    \/ FireCharge
    \/ FireThrow
    \/ FirePhase
    \/ FireSquirrel
    \/ FireRecover
    \/ FireReentry
    \/ Update
    \/ Cleanup
    \/ ScrollCamera

Spec == Init /\ [][Next]_vars

\* The undisturbed patrol: the camera stands still, the player reference
\* is always present, nobody disposes the NPC, and the frame loop keeps
\* running (frames, due timer events and update() are never postponed
\* forever).
InitLive ==
    /\ NewScene
    /\ absent = MaxAbsent
    /\ school = NoSchool
    /\ game = NoGame
    /\ paper = NoNewspaper
    /\ meter = NoMeter
    /\ item = NoItem

NextLive ==
    \/ Tick
    \/ FireEntry
    \/ FireEnter
    \/ FireCharge
    \/ FireThrow
    \/ FirePhase
    \/ FireSquirrel
    \/ FireRecover
    \/ FireReentry
    \/ Update

LiveSpec == InitLive /\ [][NextLive]_vars /\ WF_vars(NextLive)

\* The patrol under a camera that follows a player who walks both ways:
\* the camera moves between its stops in either direction, the player
\* reference is always present and nobody disposes the NPC.
PanCamera ==
    /\ pc = "frame"
    /\ \E s \in CameraStops : s # scrollX /\ scrollX' = s
    /\ UNCHANGED <<npc, width, pc, absent, outsideNpc>>

NextPan ==
    \/ Tick
    \/ FireEntry
    \/ FireEnter
    \/ FireCharge
    \/ FireThrow
    \/ FirePhase
    \/ FireSquirrel
    \/ FireRecover
    \/ FireReentry
    \/ Update
    \/ PanCamera

PanSpec == InitLive /\ [][NextPan]_vars

\* The Bully under a camera that follows a student who runs to the right.
\* In a frame the camera either stands or scrolls right by the distance the
\* student covers at MOVE_SPEED, which is twice what the Bully walks.
\* update() and the spawn positions use x and camera.scrollX only through
\* their difference, so positions are taken in the frame of the camera:
\* scrollX keeps its value and a scroll to the right by d puts the sprite d
\* further to the left. The camera is followed while the sprite is no
\* further behind its left edge than the exit buffer and the world margin.
\* The player reference is always present, nobody disposes the NPC, and the
\* frame loop keeps running.
ChaseStep == (Student_MOVE_SPEED * FrameMs) \div 1000

\* the time in which an attacking Bully uses up its throw budget; the time
\* spent attacking is not counted beyond it
ChaseClock == Bully_MAX_THROWS * Bully_THROW_INTERVAL

InitChase ==
    /\ scrollX \in CameraStops
    /\ width \in ViewportWidths
    /\ pc = "frame"
    /\ \E startFromRight \in BOOLEAN :
        \E entryDelay \in Between(Bully_ENTRY_DELAY_MIN, Bully_ENTRY_DELAY_MAX) :
            npc = BullyConstructor(startFromRight, entryDelay, scrollX, width)
    /\ absent = MaxAbsent
    /\ school = NoSchool
    /\ game = NoGame
    /\ paper = NoNewspaper
    /\ meter = NoMeter
    /\ item = NoItem

\* one frame passes while the camera scrolls right by d
ChaseFrame ==
    /\ pc = "frame"
    /\ \E d \in {0, ChaseStep} :
        LET m == Advance(npc, FrameStep(npc))
        IN /\ m.x - d >= scrollX + WorldMin
           /\ m.x - d <= scrollX + width + EXIT_BUFFER + WorldMargin + ChaseStep
           /\ npc' = [m EXCEPT !.x = @ - d,
                               !.attackTime = Min(@, ChaseClock)]
    /\ pc' = "timers"
    /\ UNCHANGED <<scrollX, width, absent, outsideNpc>>

NextChase ==
    \/ ChaseFrame
    \/ FireEntry
    \/ FireEnter
    \/ FireCharge
    \/ FireThrow
    \/ FireReentry
    \/ Update

ChaseSpec == InitChase /\ [][NextChase]_vars /\ WF_vars(NextChase)

\* ---------------------------------------------------------------------
\* DottieBaconSchool: the zone that creates and disposes the bullies
\* ---------------------------------------------------------------------
School_ZONE_INTERVAL == 5000
School_ZONE_LENGTH == 1500
School_LIBRARY_DISTANCE == 15000
School_APPROACH == 200
School_BULLY1_DELAY == 500
School_BULLY2_DELAY == 2500
School_CLEANUP_DELAY == 2000

\* how often createZone may run again for a start it has run for before
\* (after cleanup() has reset isCreated)
MaxRepeats == 0

\* the distances handed to checkZone: before, at the approach of, inside and
\* behind each multiple of the zone interval up to the library
Distances ==
    {0} \cup UNION {{k * School_ZONE_INTERVAL - School_APPROACH,
                     k * School_ZONE_INTERVAL,
                     k * School_ZONE_INTERVAL + School_ZONE_LENGTH + 1} :
                    k \in 1..3}

GetNextZoneStart(z) == (z.currentZoneNumber + 1) * School_ZONE_INTERVAL

\* the occurrence a callback scheduled now belongs to: the latest createZone
Occurrence(z) == Len(z.starts)

\* an event on the scene clock scheduled by the zone
ZoneEvent(name, delay, fromRight, occ) ==
    [name |-> name, rem |-> delay, fromRight |-> fromRight, occ |-> occ]

CreateBullies(z) ==
    [z EXCEPT !.clock =
        @ \o <<ZoneEvent("bully", School_BULLY1_DELAY, TRUE, Occurrence(z)),
               ZoneEvent("bully", School_BULLY2_DELAY, FALSE, Occurrence(z))>>]

CreateZone(z) ==
    IF z.isCreated THEN z
    ELSE CreateBullies([z EXCEPT !.isCreated = TRUE,
                                 !.starts = Append(@, GetNextZoneStart(z))])

\* hasSeenPlayer, the only field of a Bully touched here, is read by no
\* method of the patrol state machine
ActivateZone(z) == [z EXCEPT !.isActive = TRUE]

FadeOutAndCleanup(z) ==
    [z EXCEPT !.clock = Append(@, ZoneEvent("sweep", School_CLEANUP_DELAY,
                                            FALSE, Occurrence(z))),
              !.currentZoneNumber = @ + 1,
              !.isCreated = FALSE]

DeactivateZone(z) == FadeOutAndCleanup([z EXCEPT !.isActive = FALSE])

\* variant: the comparison with the library distance is missing
CheckZone_NoLibrary(z, distance) ==
    LET z1 == IF ~z.isCreated
                 /\ distance >= GetNextZoneStart(z) - School_APPROACH
              THEN CreateZone(z) ELSE z
        zoneStart == GetNextZoneStart(z1)
        inZone == distance >= zoneStart
                  /\ distance <= zoneStart + School_ZONE_LENGTH
    IN IF ~z1.isCreated THEN z1
       ELSE IF inZone /\ ~z1.isActive THEN ActivateZone(z1)
       ELSE IF ~inZone /\ z1.isActive THEN DeactivateZone(z1)
       ELSE z1

CheckZone(z, distance) ==
    IF GetNextZoneStart(z) >= School_LIBRARY_DISTANCE THEN z
    ELSE LET z1 == IF ~z.isCreated
                      /\ distance >= GetNextZoneStart(z) - School_APPROACH
                   THEN CreateZone(z) ELSE z
             zoneStart == GetNextZoneStart(z1)
             inZone == distance >= zoneStart
                       /\ distance <= zoneStart + School_ZONE_LENGTH
         IN IF ~z1.isCreated THEN z1
            ELSE IF inZone /\ ~z1.isActive THEN ActivateZone(z1)
            ELSE IF ~inZone /\ z1.isActive THEN DeactivateZone(z1)
            ELSE z1

\* the callback of a delayedCall of createBullies: a Bully is constructed
\* and pushed to this.bullies
CreateBullyCallback(z, fromRight, occ, entryDelay, camX, camW) ==
    [z EXCEPT !.bullies =
        Append(@, [occ |-> occ,
                   sprite |-> BullyConstructor(fromRight, entryDelay,
                                               camX, camW)])]

\* variant: disposing one Bully stops the throwing of all of them
DisposeBully_AllTimers(z, i) ==
    [z EXCEPT !.bullies =
        [j \in 1..Len(@) |->
            IF j = i THEN [@[j] EXCEPT !.sprite = BullyCleanup(@)]
            ELSE [@[j] EXCEPT !.sprite = StopThrowingTimer(@)]]]

\* bully.cleanup() on the i-th element of this.bullies
DisposeBully(z, i) ==
    [z EXCEPT !.bullies[i].sprite = BullyCleanup(@)]

RECURSIVE DisposeFrom(_, _)
\* this.bullies.forEach(bully => bully.cleanup()), from index i on
DisposeFrom(z, i) ==
    IF i > Len(z.bullies) THEN z ELSE DisposeFrom(DisposeBully(z, i), i + 1)

\* this.bullies.forEach(...cleanup()); this.bullies = []: the disposed
\* bullies are referenced by nothing afterwards
SweepBullies(z) == [DisposeFrom(z, 1) EXCEPT !.bullies = <<>>]

\* the callback of the 2000 ms delayedCall of fadeOutAndCleanup
CleanupCallback(z, occ) ==
    [SweepBullies(z) EXCEPT !.swept = @ \cup {occ}]

\* DottieBaconSchool.cleanup(): no event of the clock is removed
SchoolCleanupAll(z) ==
    [SweepBullies(z) EXCEPT !.isCreated = FALSE,
                            !.isActive = FALSE,
                            !.swept = 1..Len(z.starts),
                            !.cleaned = TRUE]

\* DottieBaconSchool.update(player)
SchoolUpdateAll(z, player, camX, camW, waitTime) ==
    IF ~z.isActive \/ ~player THEN z
    ELSE [z EXCEPT !.bullies =
            [j \in 1..Len(@) |->
                IF @[j].sprite.active
                THEN [@[j] EXCEPT !.sprite = BullyUpdate(@, player, camX,
                                                         camW, waitTime)]
                ELSE @[j]]]

\* the callback of a clock event of a Bully
BullyCallback(m, t, student, enterFromRight, camX, camW) ==
    CASE t.name = "entry" ->
            IF m.isDestroyed \/ ~m.active \/ ~m.attached THEN m
            ELSE BullyStartEntering(m)
      [] t.name = "enter" -> BullyEnterCallback(m, t.fromRight, camX, camW)
      [] t.name = "charge" -> BullyChargeCallback(m, student)
      [] t.name = "throw" -> TryToThrow(m, student)
      [] t.name = "reentry" ->
            BullyPrepareReentry(m, enterFromRight, camX, camW)

\* a Bully that has used up its throws and has only its throw timer left:
\* tryToThrow returns at the budget test, no event changes it any more
Quiet(m) ==
    /\ m.currentState = "charging"
    /\ m.throwCount >= Bully_MAX_THROWS
    /\ \A i \in 1..Len(m.timers) : m.timers[i].name = "throw"

\* one frame of the scene clock passes for a Bully of the zone; the clock of
\* a quiet Bully is followed no further. The zone
\* reads no position of a Bully: the motion of the sprite is left to Spec
SchoolAdvance(m) ==
    IF Quiet(m) THEN m
    ELSE [m EXCEPT !.timers =
            [i \in 1..Len(@) |-> [@[i] EXCEPT !.rem = @ - FrameMs]]]

\* the createZone runs that repeated an earlier start
Repeats(starts) ==
    Len(starts) - Cardinality({starts[k] : k \in 1..Len(starts)})

ZoneDue(z) == {i \in 1..Len(z.clock) : z.clock[i].rem <= 0}
BulliesDue(z) == {j \in 1..Len(z.bullies) : Due(z.bullies[j].sprite) # {}}
FirstDue(z) == CHOOSE i \in ZoneDue(z) : \A j \in ZoneDue(z) : i <= j

ZoneInit ==
    /\ npc = OldManConstructor
    /\ scrollX = MinOf(CameraStops)
    /\ width \in ViewportWidths
    /\ pc = "frame"
    /\ absent = 0
    /\ school = DottieBaconSchoolConstructor
    /\ game = NewGame(0, TRUE)
    /\ paper = NoNewspaper
    /\ meter = NoMeter
    /\ item = NoItem

\* a frame of the scene clock
SchoolTick ==
    /\ pc = "frame"
    /\ school.clock # <<>> \/ school.bullies # <<>>
    /\ school' = [school EXCEPT
            !.clock = [i \in 1..Len(@) |-> [@[i] EXCEPT !.rem = @ - FrameMs]],
            !.bullies = [j \in 1..Len(@) |->
                            [@[j] EXCEPT !.sprite = SchoolAdvance(@)]]]
    /\ pc' = "timers"
    /\ UNCHANGED <<scrollX, width, outsideSchool>>

FireCreateBully ==
    /\ pc = "timers"
    /\ ZoneDue(school) # {}
    /\ LET i == FirstDue(school)
           t == school.clock[i]
       IN /\ t.name = "bully"
          /\ \E entryDelay \in {Bully_ENTRY_DELAY_MIN} :
                school' = CreateBullyCallback(
                            [school EXCEPT !.clock = RemoveAt(@, i)],
                            t.fromRight, t.occ, entryDelay, scrollX, width)
    /\ UNCHANGED <<scrollX, width, pc, outsideSchool>>

FireCleanup ==
    /\ pc = "timers"
    /\ ZoneDue(school) # {}
    /\ LET i == FirstDue(school)
           t == school.clock[i]
       IN /\ t.name = "sweep"
          /\ school' = CleanupCallback(
                          [school EXCEPT !.clock = RemoveAt(@, i)], t.occ)
    /\ UNCHANGED <<scrollX, width, pc, outsideSchool>>

\* a due event of one of the bullies fires
FireBullyTimer ==
    /\ pc = "timers"
    /\ \E j \in BulliesDue(school) :
        LET m == school.bullies[j].sprite
            i == CHOOSE d \in Due(m) : \A e \in Due(m) : d <= e
        IN \E enterFromRight \in (IF m.timers[i].name = "reentry"
                                   THEN BOOLEAN ELSE {TRUE}) :
                school' = [school EXCEPT !.bullies[j].sprite =
                              BullyCallback(Taken(m, i), m.timers[i], TRUE,
                                            enterFromRight, scrollX, width)]
    /\ UNCHANGED <<scrollX, width, pc, outsideSchool>>

\* the scene's update() calls checkZone(distance) between two frames
SchoolCheckZone ==
    /\ pc = "frame"
    /\ \E distance \in Distances :
        /\ Repeats(CheckZone(school, distance).starts) <= MaxRepeats
        /\ school' = CheckZone(school, distance)
    /\ UNCHANGED <<scrollX, width, pc, outsideSchool>>

\* the scene's update() calls update(player) once every due event has fired
SchoolUpdate ==
    /\ pc = "timers"
    /\ ZoneDue(school) = {} /\ BulliesDue(school) = {}
    /\ \E waitTime \in {Bully_REENTRY_TIME_MIN} :
            school' = SchoolUpdateAll(school, TRUE, scrollX, width, waitTime)
    /\ pc' = "frame"
    /\ UNCHANGED <<scrollX, width, outsideSchool>>

\* the owner of the zone calls cleanup() between two frames
SchoolCleanup ==
    /\ pc = "frame"
    /\ school' = SchoolCleanupAll(school)
    /\ UNCHANGED <<scrollX, width, pc, outsideSchool>>

ZoneNext ==
    \/ SchoolTick
    \/ FireCreateBully
    \/ FireCleanup
    \/ FireBullyTimer
    \/ SchoolCheckZone
    \/ SchoolUpdate
    \/ SchoolCleanup

ZoneSpec == ZoneInit /\ [][ZoneNext]_vars

\* ---------------------------------------------------------------------
\* Student (confidence, stumble, defeat) and BlueberrydaleLibrary (victory)
\* ---------------------------------------------------------------------
\* how far to the right of the left world bound the student is followed
StudentRange == 40

\* this.scene.game.loop.delta: the length of a frame of the student's game
StudentFrameMs == 100

Damages == {Newspaper_DAMAGE, WordBubble_DAMAGE, Squirrel_DAMAGE}
Heals == {CandyBar_CONFIDENCE_BOOST, PowerUp_CONFIDENCE_BOOST}
LibraryDistances ==
    {0, Library_ZONE_START - Library_APPROACH_DISTANCE, Library_ZONE_START}

Clamp(v, lo, hi) == IF v < lo THEN lo ELSE IF v > hi THEN hi ELSE v

\* variant: the meter does not clamp
MeterUpdateConfidence_NoClamp(g, amount) ==
    IF ~g.connected THEN g
    ELSE [g EXCEPT !.meter = @ + amount]

\* ConfidenceMeter.updateConfidence(amount), if a meter is connected
MeterUpdateConfidence(g, amount) ==
    IF ~g.connected THEN g
    ELSE [g EXCEPT !.meter = Clamp(@ + amount, 0, Student_MAX_CONFIDENCE)]

\* the knockback velocity lasts until the next handleMovement and is left out
Stumble(g) ==
    IF g.isStumbling THEN g
    ELSE [g EXCEPT !.isStumbling = TRUE,
                   !.stumbles = Append(@, Student_STUMBLE_TIME)]

\* the callback of the 400 ms delayedCall of stumble()
StumbleEnd(g) == [g EXCEPT !.isStumbling = FALSE]

OnConfidenceDepleted(g) ==
    IF g.isDefeated THEN g
    ELSE [g EXCEPT !.isDefeated = TRUE,
                   !.hasTriggeredGameOver = FALSE,
                   !.vx = 0,
                   !.bounded = FALSE]

\* variant: no invincibility while stumbling
TakeDamage_NoGuard(g, amount) ==
    LET g1 == [g EXCEPT !.confidence = Clamp(@ - amount, 0, @)]
        g2 == MeterUpdateConfidence(g1, 0 - amount)
        g3 == [Stumble(g2) EXCEPT !.sinceHit = 0, !.hitParity = ~@]
    IN IF g3.confidence <= 0 THEN OnConfidenceDepleted(g3) ELSE g3

\* takeDamage(amount); it returns true exactly if the student is not stumbling
TakeDamage(g, amount) ==
    IF g.isStumbling THEN g
    ELSE LET g1 == [g EXCEPT !.confidence = Clamp(@ - amount, 0, @)]
             g2 == MeterUpdateConfidence(g1, 0 - amount)
             g3 == [Stumble(g2) EXCEPT !.sinceHit = 0, !.hitParity = ~@]
         IN IF g3.confidence <= 0 THEN OnConfidenceDepleted(g3) ELSE g3

Heal(g, amount) ==
    MeterUpdateConfidence(
        [g EXCEPT !.confidence = Clamp(@ + amount, @, Student_MAX_CONFIDENCE)],
        amount)

\* variant: the event is emitted on every call
OnWalkedOffScreen_Repeating(g) ==
    [g EXCEPT !.hasTriggeredGameOver = TRUE, !.gameOvers = @ + 1]

OnWalkedOffScreen(g) ==
    IF g.hasTriggeredGameOver THEN g
    ELSE [g EXCEPT !.hasTriggeredGameOver = TRUE, !.gameOvers = @ + 1]

HandleDefeatWalk(g) ==
    LET g1 == [g EXCEPT !.vx = 0 - (Student_MOVE_SPEED \div 2)]
    IN IF g1.x < Student_OFFSCREEN_X THEN OnWalkedOffScreen(g1) ELSE g1

\* input: -1 left, 1 right, 0 none (the drag stops the student)
HandleMovement(g, input) ==
    IF g.isDefeated THEN HandleDefeatWalk(g)
    ELSE [g EXCEPT !.vx = input * Student_MOVE_SPEED]

\* variant: hasWon is not set
PlayerReachedLibrary_NoFlag(g) ==
    IF g.hasWon THEN g
    ELSE [g EXCEPT !.paused = TRUE, !.vx = 0, !.victories = @ + 1]

\* victories counts the celebrations shown and victory screens scheduled
PlayerReachedLibrary(g) ==
    IF g.hasWon THEN g
    ELSE [g EXCEPT !.hasWon = TRUE, !.paused = TRUE, !.vx = 0,
                   !.victories = @ + 1]

LibraryCheckZone(g, distance) ==
    IF g.hasWon THEN g
    ELSE LET g1 == IF ~g.isCreated
                      /\ distance >= Library_ZONE_START
                                     - Library_APPROACH_DISTANCE
                   THEN [g EXCEPT !.isCreated = TRUE] ELSE g
         IN IF distance >= Library_ZONE_START THEN PlayerReachedLibrary(g1)
            ELSE g1

\* the distance walked in one frame at velocity vx
StepOf(vx) == (vx * StudentFrameMs) \div 1000

\* one frame passes: the clock advances the stumble events, the body moves
\* the student unless the physics world is paused. A body that collides with
\* the world bounds stays right of the left bound; a student who has walked
\* off the screen is followed one step beyond the edge
GameAdvance(g) ==
    LET to == g.x + StepOf(g.vx)
        floor == Student_OFFSCREEN_X + StepOf(0 - (Student_MOVE_SPEED \div 2))
    IN [g EXCEPT !.stumbles = [i \in 1..Len(@) |-> @[i] - StudentFrameMs],
                 !.sinceHit = IF @ < 0 THEN @
                              ELSE Min(@ + StudentFrameMs,
                                       Student_STUMBLE_TIME),
                 !.x = IF g.paused THEN @
                       ELSE IF g.bounded THEN (IF to < 0 THEN 0 ELSE to)
                       ELSE (IF to < floor THEN floor ELSE to)]

StumbleDue(g) == {i \in 1..Len(g.stumbles) : g.stumbles[i] <= 0}

GameInit ==
    /\ npc = OldManConstructor
    /\ scrollX = MinOf(CameraStops)
    /\ width \in ViewportWidths
    /\ pc = "frame"
    /\ absent = 0
    /\ school = DottieBaconSchoolConstructor
    /\ \E x \in {0, StudentRange} : \E connected \in BOOLEAN :
            game = NewGame(x, connected)
    /\ paper = NoNewspaper
    /\ meter = NoMeter
    /\ item = NoItem

GameTick ==
    /\ pc = "frame"
    /\ game' = GameAdvance(game)
    /\ pc' = "timers"
    /\ UNCHANGED outsideGame

FireStumbleEnd ==
    /\ pc = "timers"
    /\ \E i \in StumbleDue(game) :
        /\ \A j \in StumbleDue(game) : i <= j
        /\ game' = StumbleEnd([game EXCEPT !.stumbles = RemoveAt(@, i)])
    /\ UNCHANGED <<pc, outsideGame>>

\* the scene's update() calls student.update() once the due events have fired
StudentUpdate ==
    /\ pc = "timers"
    /\ StumbleDue(game) = {}
    /\ \E input \in {-1, 0, 1} :
        /\ game.x + StepOf(input * Student_MOVE_SPEED) <= StudentRange
        /\ game' = HandleMovement(game, input)
    /\ pc' = "frame"
    /\ UNCHANGED outsideGame

\* an overlap callback of a projectile or a squirrel; a paused physics world
\* reports no overlap
StudentTakeDamage ==
    /\ pc = "frame"
    /\ ~game.paused
    /\ \E amount \in Damages : game' = TakeDamage(game, amount)
    /\ UNCHANGED <<pc, outsideGame>>

\* the overlap callback of a power-up
StudentHeal ==
    /\ pc = "frame"
    /\ ~game.paused
    /\ \E amount \in Heals : game' = Heal(game, amount)
    /\ UNCHANGED <<pc, outsideGame>>

\* the scene's update() calls checkZone(distance) of the library
LibraryCheck ==
    /\ pc = "frame"
    /\ \E distance \in LibraryDistances :
        game' = LibraryCheckZone(game, distance)
    /\ UNCHANGED <<pc, outsideGame>>

GameNext ==
    \/ GameTick
    \/ FireStumbleEnd
    \/ StudentUpdate
    \/ StudentTakeDamage
    \/ StudentHeal
    \/ LibraryCheck

GameSpec == GameInit /\ [][GameNext]_vars

\* ---------------------------------------------------------------------
\* The flight of a Newspaper
\* ---------------------------------------------------------------------
\* the length of a frame of the flight, a divisor of 1000 ms for which the
\* velocities and the gravity give whole pixels
PaperFrameMs == 100

\* where the OldMan and the student stand when the Newspaper is thrown,
\* measured from the left edge of the viewport, and the OldMan's ground line
ThrowerOffsets == {100, 400, 700}
StudentOffsets == {200, 600}
GroundYs == {505}

\* new Newspaper(scene, x, y, targetX): setupNewspaper and setupCleanup
NewspaperConstructor(x, y, targetX) ==
    LET throwDirection == IF targetX > x THEN 1 ELSE -1
    IN [x |-> x, y |-> y,
        vx |-> Newspaper_HORIZONTAL_SPEED * throwDirection,
        vy |-> Newspaper_VERTICAL_SPEED,
        isDestroyed |-> FALSE, listening |-> TRUE, removedBy |-> "none"]

\* OldMan.throwNewspaper: the Newspaper starts beside the OldMan, on the
\* side he faces, and is aimed at the student
ThrowNewspaper(oldManX, oldManY, flipX, studentX) ==
    NewspaperConstructor(IF flipX THEN oldManX - Newspaper_THROW_OFFSET
                         ELSE oldManX + Newspaper_THROW_OFFSET,
                         oldManY - Newspaper_THROW_OFFSET, studentX)

NewspaperCleanup(n, cause) ==
    [n EXCEPT !.isDestroyed = TRUE, !.listening = FALSE, !.vx = 0, !.vy = 0,
              !.removedBy = IF @ = "none" THEN cause ELSE @]

CheckBounds(n, camX, configWidth) ==
    LET isOffScreen == \/ n.x < 0 - Newspaper_BOUNDS_MARGIN
                       \/ n.x > configWidth + Newspaper_BOUNDS_MARGIN
                       \/ n.y > Config_HEIGHT + Newspaper_BOUNDS_MARGIN
    IN IF isOffScreen THEN NewspaperCleanup(n, "bounds") ELSE n

\* the listener setupCleanup puts on the scene's 'update' event
UpdateListener(n, camX, configWidth) ==
    IF n.isDestroyed THEN n ELSE CheckBounds(n, camX, configWidth)

\* one step of the physics body: gravity, then the move
BodyStep(n) ==
    LET vy1 == n.vy + (Newspaper_GRAVITY * PaperFrameMs) \div 1000
    IN [n EXCEPT !.vy = vy1,
                 !.x = @ + (n.vx * PaperFrameMs) \div 1000,
                 !.y = @ + (vy1 * PaperFrameMs) \div 1000]

\* the bodies of the Newspaper (30 wide) and of the student (40 wide) meet
\* in x; whether they meet in y depends on the student's jump
MayTouch(n, studentX) ==
    /\ n.x - studentX < 35
    /\ studentX - n.x < 35

PaperInit ==
    /\ npc = OldManConstructor
    /\ scrollX \in CameraStops
    /\ width \in ViewportWidths
    /\ pc = "frame"
    /\ absent = 0
    /\ school = DottieBaconSchoolConstructor
    /\ \E so \in StudentOffsets : \E oo \in ThrowerOffsets :
        \E oy \in GroundYs : \E flipX \in BOOLEAN :
            /\ game = NewGame(scrollX + so, TRUE)
            /\ paper = ThrowNewspaper(scrollX + oo, oy, flipX, scrollX + so)
    /\ meter = NoMeter
    /\ item = NoItem

\* the physics step of a frame; the overlap the OldMan registered calls
\* onNewspaperHitPlayer when the two bodies meet
PaperWorldStep ==
    /\ pc = "frame"
    /\ ~paper.isDestroyed
    /\ LET n == BodyStep(paper)
       IN \E touch \in (IF MayTouch(n, game.x) THEN BOOLEAN ELSE {FALSE}) :
            IF touch
            THEN /\ game' = TakeDamage(game, Newspaper_DAMAGE)
                 /\ paper' = NewspaperCleanup(n, "hit")
            ELSE /\ game' = game
                 /\ paper' = n
    /\ pc' = "timers"
    /\ UNCHANGED outsidePaper

\* the scene's 'update' event of the frame
PaperUpdateEvent ==
    /\ pc = "timers"
    /\ paper' = IF paper.listening THEN UpdateListener(paper, scrollX, width)
                ELSE paper
    /\ pc' = "frame"
    /\ UNCHANGED <<game, outsidePaper>>

PaperNext ==
    \/ PaperWorldStep
    \/ PaperUpdateEvent

PaperSpec == PaperInit /\ [][PaperNext]_vars

\* ---------------------------------------------------------------------
\* The ConfidenceMeter
\* ---------------------------------------------------------------------
\* the maxConfidence values a meter is constructed with, the amounts handed
\* to updateConfidence and the values handed to setConfidence: below,
\* inside and beyond the range of the meter
MeterMaxima == {60, Student_MAX_CONFIDENCE}
MeterAmounts ==
    {0 - Student_MAX_CONFIDENCE - 1, 0 - Squirrel_DAMAGE, 0 - WordBubble_DAMAGE,
     0 - Newspaper_DAMAGE, -1, 0, 1, PowerUp_CONFIDENCE_BOOST,
     Student_MAX_CONFIDENCE + 1}
MeterValues == {-1, 0, 1, 59, 60, 61, Student_MAX_CONFIDENCE + 1}

ConfidenceMeterConstructor(maxConfidence) ==
    [maxConfidence |-> maxConfidence, currentConfidence |-> maxConfidence]

\* variant: the upper clamp is left out
UpdateConfidence_NoUpperClamp(m, amount) ==
    LET sum == m.currentConfidence + amount
    IN [m EXCEPT !.currentConfidence = IF sum < 0 THEN 0 ELSE sum]

UpdateConfidence(m, amount) ==
    LET sum == m.currentConfidence + amount
        low == IF sum < 0 THEN 0 ELSE sum
    IN [m EXCEPT !.currentConfidence =
                    IF low > m.maxConfidence THEN m.maxConfidence ELSE low]

\* Math.max(0, Math.min(value, maxConfidence))
SetConfidence(m, value) ==
    LET least == IF value < m.maxConfidence THEN value ELSE m.maxConfidence
    IN [m EXCEPT !.currentConfidence = IF 0 > least THEN 0 ELSE least]

IsDepleted(m) == m.currentConfidence <= 0

Reset(m) == [m EXCEPT !.currentConfidence = m.maxConfidence]

MeterInit ==
    /\ npc = OldManConstructor
    /\ scrollX = MinOf(CameraStops)
    /\ width \in ViewportWidths
    /\ pc = "frame"
    /\ absent = 0
    /\ school = NoSchool
    /\ game = NoGame
    /\ paper = NoNewspaper
    /\ item = NoItem
    /\ \E maxConfidence \in MeterMaxima :
            meter = ConfidenceMeterConstructor(maxConfidence)

MeterUpdate ==
    /\ \E amount \in MeterAmounts : meter' = UpdateConfidence(meter, amount)
    /\ UNCHANGED outsideMeter

MeterSet ==
    /\ \E value \in MeterValues : meter' = SetConfidence(meter, value)
    /\ UNCHANGED outsideMeter

MeterReset ==
    /\ meter' = Reset(meter)
    /\ UNCHANGED outsideMeter

MeterNext ==
    \/ MeterUpdate
    \/ MeterSet
    \/ MeterReset

MeterSpec == MeterInit /\ [][MeterNext]_vars

\* ---------------------------------------------------------------------
\* One hazard or power-up and the student it touches
\* ---------------------------------------------------------------------
PowerUp_COLLECT_TIME == 200

\* the length of a frame of the item's scene
ItemFrameMs == 100

ItemKinds == {"wordbubble", "squirrel", "powerup", "candybar"}

\* the constructors set hasHitPlayer / isCollected and isDestroyed to false.
\* used is that flag; tween is the time left of the collection animation
\* (-1: none); applied counts the takeDamage / heal calls the item has made,
\* late records such a call made after cleanup, destroys counts destroy()
ItemConstructor(kind) ==
    [kind |-> kind, used |-> FALSE, isDestroyed |-> FALSE, tween |-> -1,
     applied |-> 0, late |-> FALSE, destroys |-> 0]

\* cleanup() of the four classes
ItemCleanup(it) ==
    IF it.isDestroyed THEN it
    ELSE [it EXCEPT !.isDestroyed = TRUE, !.destroys = @ + 1]

\* the item calls player.takeDamage or player.heal
Applies(it) ==
    [it EXCEPT !.applied = @ + 1, !.late = @ \/ it.isDestroyed]

\* variant: hitPlayer without its first line
WordBubbleHitPlayer_NoFlag(it, g, valid) ==
    LET it1 == [it EXCEPT !.used = TRUE]
    IN IF ~valid THEN [item |-> ItemCleanup(it1), game |-> g]
       ELSE [item |-> ItemCleanup(Applies(it1)),
             game |-> TakeDamage(g, WordBubble_DAMAGE)]

\* valid: the call carries a player that has takeDamage
WordBubbleHitPlayer(it, g, valid) ==
    IF it.used \/ it.isDestroyed THEN [item |-> it, game |-> g]
    ELSE LET it1 == [it EXCEPT !.used = TRUE]
         IN IF ~valid THEN [item |-> ItemCleanup(it1), game |-> g]
            ELSE [item |-> ItemCleanup(Applies(it1)),
                  game |-> TakeDamage(g, WordBubble_DAMAGE)]

SquirrelHitPlayer(it, g) ==
    IF it.used \/ it.isDestroyed THEN [item |-> it, game |-> g]
    ELSE [item |-> Applies([it EXCEPT !.used = TRUE]),
          game |-> TakeDamage(g, Squirrel_DAMAGE)]

\* variant: collect without its first line
PowerUpCollect_NoFlag(it, g) ==
    [item |-> [Applies([it EXCEPT !.used = TRUE])
                    EXCEPT !.tween = PowerUp_COLLECT_TIME],
     game |-> Heal(g, PowerUp_CONFIDENCE_BOOST)]

\* collect: heal, then playCollectionAnimation starts the 200 ms tween
PowerUpCollect(it, g) ==
    IF it.used \/ it.isDestroyed THEN [item |-> it, game |-> g]
    ELSE [item |-> [Applies([it EXCEPT !.used = TRUE])
                        EXCEPT !.tween = PowerUp_COLLECT_TIME],
          game |-> Heal(g, PowerUp_CONFIDENCE_BOOST)]

\* valid: the call carries a player that has heal
CollectCandyBar(it, g, valid) ==
    IF it.used \/ it.isDestroyed THEN [item |-> it, game |-> g]
    ELSE LET it1 == [it EXCEPT !.used = TRUE]
         IN IF ~valid THEN [item |-> ItemCleanup(it1), game |-> g]
            ELSE [item |-> ItemCleanup(Applies(it1)),
                  game |-> Heal(g, CandyBar_CONFIDENCE_BOOST)]

\* the overlap callback the item registered for itself
OverlapCallback(it, g, valid) ==
    IF it.kind = "wordbubble" THEN WordBubbleHitPlayer(it, g, valid)
    ELSE IF it.kind = "squirrel" THEN SquirrelHitPlayer(it, g)
    ELSE IF it.kind = "powerup" THEN PowerUpCollect(it, g)
    ELSE CollectCandyBar(it, g, valid)

\* onComplete of the collection tween
TweenComplete(it) == ItemCleanup([it EXCEPT !.tween = -1])

\* the students an item meets: fresh, stumbling after a hit, and nearly
\* out of confidence
ItemStudents ==
    {NewGame(0, TRUE),
     TakeDamage(NewGame(0, TRUE), Newspaper_DAMAGE),
     [NewGame(0, TRUE) EXCEPT !.confidence = Newspaper_DAMAGE,
                              !.meter = Newspaper_DAMAGE]}

NotDueStumble(rem) == rem > 0

\* one frame of the student: the clock advances and ends a stumble that
\* is due
StudentFrame(g) ==
    LET g1 == GameAdvance(g)
    IN IF StumbleDue(g1) = {} THEN g1
       ELSE StumbleEnd([g1 EXCEPT !.stumbles = SelectSeq(@, NotDueStumble)])

ItemInit ==
    /\ npc = OldManConstructor
    /\ scrollX = MinOf(CameraStops)
    /\ width \in ViewportWidths
    /\ pc = "frame"
    /\ absent = 0
    /\ school = NoSchool
    /\ paper = NoNewspaper
    /\ meter = NoMeter
    /\ game \in ItemStudents
    /\ \E kind \in ItemKinds : item = ItemConstructor(kind)

\* the physics step reports an overlap, or an owner calls the callback
\* itself: hitPlayer / collect / collectCandyBar runs
ItemOverlap ==
    /\ \E valid \in (IF item.kind \in {"wordbubble", "candybar"}
                      THEN BOOLEAN ELSE {TRUE}) :
        LET r == OverlapCallback(item, game, valid)
        IN item' = r.item /\ game' = r.game
    /\ UNCHANGED outsideItem

\* the item has left the screen, or its owner disposes it: cleanup() runs
ItemDispose ==
    /\ item' = ItemCleanup(item)
    /\ UNCHANGED <<game, outsideItem>>

\* a frame passes
ItemTick ==
    /\ item.tween # 0
    /\ item' = [item EXCEPT !.tween = IF @ > 0 THEN @ - ItemFrameMs ELSE @]
    /\ game' = StudentFrame(game)
    /\ UNCHANGED outsideItem

ItemTweenComplete ==
    /\ item.tween = 0
    /\ item' = TweenComplete(item)
    /\ UNCHANGED <<game, outsideItem>>

ItemNext ==
    \/ ItemOverlap
    \/ ItemDispose
    \/ ItemTick
    \/ ItemTweenComplete

ItemSpec == ItemInit /\ [][ItemNext]_vars




\* ---------------------------------------------------------------------
\* Properties
\* ---------------------------------------------------------------------
\* the fields of the sprite a timer callback could change
Core(m) ==
    <<m.currentState, m.x, m.vx, m.visible, m.active, m.patrolDirection,
      m.throwCount, m.backPainCount, m.backPainThisPatrol, m.spawned>>

Count(ts, name) == Cardinality({i \in 1..Len(ts) : ts[i].name = name})

\* C1: once the NPC is disposed, a timer callback it scheduled earlier
\* changes no NPC state (currentState, x, velocity, counters, visibility)
\* and schedules no new timer.
C1_StaleCallbackInert ==
    [][~npc.attached =>
        /\ Core(npc') = Core(npc)
        /\ Len(npc'.timers) <= Len(npc.timers)]_vars

\* C2: after cleanup has returned, none of the timers the NPC ever created
\* is still scheduled.
C2_NoTimerAfterCleanup == ~npc.attached => npc.timers = <<>>


\* update() has retired the NPC: startWaiting ran and scheduled a re-entry
Retires ==
    /\ npc'.currentState = "waiting"
    /\ Count(npc'.timers, "reentry") > Count(npc.timers, "reentry")

\* C3: update() retires an NPC to Waiting only from Attacking or Exiting,
\* and only when it walks left and is left of scrollX - 100 or walks right
\* and is right of scrollX + width + 100, with the camera as it is at the
\* time of the check.
C3_RetireOnlyPastOwnThreshold ==
    [][Retires =>
        /\ npc.currentState \in {Attacking(npc.kind), "exiting"}
        /\ \/ npc.patrolDirection = -1 /\ npc.x < scrollX - 100
           \/ npc.patrolDirection = 1 /\ npc.x > scrollX + width + 100]_vars

\* a right-walking NPC has been retired beyond the right threshold of a
\* camera that has scrolled
C3_Witness ==
    /\ npc.currentState = "waiting"
    /\ Count(npc.timers, "reentry") > 0
    /\ npc.patrolDirection = 1
    /\ scrollX > 0
    /\ npc.x > scrollX + width + 100

\* an NPC has been given a spawn position: an enter callback or
\* prepareReentry ran on a live sprite
Placed ==
    /\ npc.attached
    /\ npc'.attached
    /\ \/ Count(npc'.timers, "enter") < Count(npc.timers, "enter")
       \/ Count(npc'.timers, "reentry") < Count(npc.timers, "reentry")

\* C4: every spawn position -- at construction, in the enter callback and
\* in prepareReentry -- is scrollX + width + 100 for an entry from the right
\* and scrollX - 100 for an entry from the left, with the camera of that
\* moment.
C4_SpawnCameraRelative ==
    /\ npc.x = IF npc.patrolDirection = -1 THEN scrollX + width + 100
               ELSE scrollX - 100
    /\ [][Placed =>
            npc'.x = IF npc'.patrolDirection = -1 THEN scrollX + width + 100
                     ELSE scrollX - 100]_vars

\* the decision update() takes for sprite m under a camera at camX
UpdateRetires(m, camX) ==
    LET wait == CHOOSE w \in ReentryWait(m.kind) : TRUE
        u == IF m.kind = "bully" THEN BullyUpdate(m, TRUE, camX, width, wait)
             ELSE OldManUpdate(m, TRUE, camX, width, wait)
    IN u.currentState = "waiting" /\ Len(u.timers) > Len(m.timers)

Shifts ==
    {a - b : a, b \in CameraStops \cup ViewportWidths \cup {EXIT_BUFFER}}

\* C5: whenever update() is about to run, its exit decision depends on
\* x - scrollX only: moving the sprite and the camera by the same amount
\* never changes it.
C5_ExitDependsOnOffset ==
    pc = "timers" /\ Due(npc) = {} =>
        LET here == UpdateRetires(npc, scrollX)
        IN \A d \in Shifts :
            UpdateRetires([npc EXCEPT !.x = @ + d], scrollX + d) = here

\* update() is about to retire a sprite that it would keep if the camera
\* stood at 0 with the sprite where it is
C5_Witness ==
    /\ pc = "timers"
    /\ scrollX > 0
    /\ UpdateRetires(npc, scrollX)
    /\ ~UpdateRetires(npc, 0)

PatrolEdges(kind) ==
    {<<"waiting", "entering">>, <<"entering", Attacking(kind)>>,
     <<Attacking(kind), "exiting">>, <<"exiting", "waiting">>}
    \cup (IF kind = "oldman"
          THEN {<<"patrolling", "backpain">>, <<"backpain", "patrolling">>}
          ELSE {})

\* C6: every change of state follows Waiting -> Entering -> Attacking ->
\* Exiting -> Waiting, or for the OldMan Attacking <-> Recovering.
C6_OnlyPatrolEdges ==
    [][npc'.currentState # npc.currentState =>
        <<npc.currentState, npc'.currentState>> \in PatrolEdges(npc.kind)]_vars

\* C7: a Bully spawns at most MAX_THROWS word bubbles per traversal.
C7_ThrowBudget ==
    npc.kind = "bully" =>
        /\ npc.spawned <= Bully_MAX_THROWS
        /\ npc.throwCount <= Bully_MAX_THROWS

\* a later traversal has used its whole budget while the throw timer of an
\* earlier traversal is still running beside the current one
C7_Witness ==
    /\ npc.kind = "bully"
    /\ npc.patrols >= 2
    /\ npc.spawned = Bully_MAX_THROWS
    /\ Count(npc.timers, "throw") >= 2

\* C8: between two startEntering calls the OldMan enters 'backpain' at most
\* once.
C8_BackPainOncePerTraversal ==
    npc.kind = "oldman" =>
        npc.backPainThisPatrol <= OldMan_MAX_BACKPAIN_PER_PATROL

\* the OldMan has had his back pain in this traversal and walks on while
\* another phase timer is still pending
C8_Witness ==
    /\ npc.kind = "oldman"
    /\ npc.attached
    /\ npc.backPainThisPatrol = 1
    /\ npc.currentState = "patrolling"
    /\ Count(npc.timers, "phase") > 0

\* C10: two consecutive attacks of an NPC within a traversal are one attack
\* interval apart and never closer (lastGap is the time between the last
\* attack and the one before it, -1 after the first attack of a traversal,
\* and is not counted beyond one interval).
C10_AttacksOneIntervalApart ==
    npc.lastGap = -1 \/ npc.lastGap = ThrowInterval(npc.kind)


\* No state of either class is 'exiting': startExiting has no caller.  This
\* holds in every reachable state, so the failure of the cycle below does
\* not depend on how many traversals are followed.
ExitingNeverEntered == npc.currentState # "exiting"

EntersAttacking ==
    /\ npc.attached
    /\ npc.currentState = "entering"
    /\ npc'.currentState = Attacking(npc.kind)

\* the step is the OldMan's recovery: Recovering back to Attacking
ResumesAttacking ==
    /\ npc.currentState = "backpain"
    /\ npc'.currentState = "patrolling"

\* C11: the step that takes an NPC into Attacking for the first time in a
\* traversal spawns one projectile in that same step (the player being
\* present); the step in which the OldMan resumes Attacking after
\* Recovering spawns none.
C11_ImmediateAttackOnEntry ==
    [][/\ (EntersAttacking /\ absent' = absent
            => npc'.spawned = npc.spawned + 1)
       /\ (ResumesAttacking => npc'.spawned = npc.spawned)]_vars


\* the scene clock is about to fire a throw timer: the only step possible
\* from such a state runs tryToThrow / tryToThrowNewspaper
ThrowTimerFires == pc = "timers" /\ DueNamed("throw") # {}

Counters(m) ==
    <<m.spawned, m.throwCount, m.backPainCount, m.backPainThisPatrol>>

\* C12: a projectile is spawned only by a live NPC whose state is Attacking
\* ('charging' / 'patrolling') at that moment; a throw timer that fires in
\* any other state, or after disposal, spawns nothing and changes no
\* counter.
C12_SpawnOnlyWhileAttacking ==
    [][/\ (npc'.spawned > npc.spawned
            => npc.attached /\ npc'.currentState = Attacking(npc.kind))
       /\ (ThrowTimerFires
            /\ (npc.currentState # Attacking(npc.kind) \/ ~npc.attached)
            => Counters(npc') = Counters(npc))]_vars

\* a throw timer has just fired (it starts a new period) while the NPC was
\* waiting off-screen
C12_Witness ==
    /\ pc = "timers"
    /\ npc.attached
    /\ npc.currentState = "waiting"
    /\ \E i \in 1..Len(npc.timers) :
          /\ npc.timers[i].name = "throw"
          /\ npc.timers[i].rem = ThrowInterval(npc.kind)


\* C13: when update() retires an NPC that has just been Attacking for
\* longer than one attack interval without interruption, the player
\* reference being present throughout, the traversal that ends there has
\* spawned at least one projectile.
C13_AtLeastOneProjectile ==
    [][Retires /\ npc.stint > ThrowInterval(npc.kind)
        => npc'.spawned >= 1]_vars


\* this.throwTimer refers to a scheduled timer event
ThrowTimerRunning(m) == \E i \in 1..Len(m.timers) : IsCurThrow(m.timers[i])

\* C14: a Bully whose throwCount has reached MAX_THROWS is no longer
\* 'charging' (it has moved on to 'exiting'), and its throw timer has been
\* stopped by the time it is 'waiting'.
C14_BudgetExhaustedExits ==
    npc.kind = "bully" /\ npc.attached
    /\ npc.throwCount >= Bully_MAX_THROWS =>
        /\ npc.currentState # "charging"
        /\ (npc.currentState = "waiting" => ~ThrowTimerRunning(npc))


\* C15: cleanup sets the disposed flag before anything else, so whenever
\* the sprite has been destroyed the flag is set for every callback that
\* runs afterwards to see.
C15_DisposedFlagSet == ~npc.attached => npc.isDestroyed

\* C16: cleanup() on an NPC that is already disposed raises no error (and
\* so runs to its end, as the first call did).
C16_CleanupIdempotent == ~npc.cleanupError


\* the Bully's budget counter counts the projectiles of this traversal and
\* nothing else
BudgetIsSpawned == npc.kind = "bully" => npc.throwCount = npc.spawned

\* C17: a call that finds the player reference missing -- update(player)
\* without a player, or an attack attempt without scene.student -- spawns
\* nothing, changes no counter and, unless it is the charge callback
\* (whose startCharging sets the state before the attempt), changes no
\* state of the NPC; the Bully's throwCount is only ever consumed by a
\* projectile that was spawned.
C17_AbsentPlayerNoOp ==
    /\ BudgetIsSpawned
    /\ [][/\ BudgetIsSpawned'
          /\ (absent' > absent =>
                /\ Counters(npc') = Counters(npc)
                /\ (DueNamed("charge") = {} => Core(npc') = Core(npc)))]_vars

\* in its first traversal a Bully found the player missing at the attempt
\* of startCharging and spawned its first word bubble at the next attempt,
\* one interval later
C17_Witness ==
    /\ npc.kind = "bully"
    /\ npc.patrols = 1
    /\ absent = 1
    /\ npc.currentState = "charging"
    /\ npc.attackTime = Bully_THROW_INTERVAL
    /\ npc.sinceThrow = 0
    /\ npc.spawned = 1
    /\ npc.throwCount = 1


ReentryMin(kind) ==
    IF kind = "bully" THEN Bully_REENTRY_TIME_MIN ELSE OldMan_REENTRY_TIME_MIN
ReentryMax(kind) ==
    IF kind = "bully" THEN Bully_REENTRY_TIME_MAX ELSE OldMan_REENTRY_TIME_MAX

\* at most one re-entry timer and at most one entering sequence (the enter
\* timer or the timer that follows it) is pending
OneReentryPending ==
    npc.attached =>
        /\ Count(npc.timers, "reentry") <= 1
        /\ Count(npc.timers, "enter") + Count(npc.timers, "charge") <= 1

\* C18: at no time are two re-entry timers, or two entering sequences, of
\* an NPC pending together, and the re-entry timer that update() schedules
\* when it retires the NPC runs REENTRY_TIME_MIN to REENTRY_TIME_MAX ms.
C18_OneReentryPerWait ==
    /\ OneReentryPending
    /\ [][/\ OneReentryPending'
          /\ (Retires =>
                LET t == npc'.timers[Len(npc'.timers)]
                IN /\ t.name = "reentry"
                   /\ t.rem >= ReentryMin(npc.kind)
                   /\ t.rem <= ReentryMax(npc.kind))]_vars


\* the decision update() takes for sprite m under a camera at camX that is
\* camW wide
UpdateRetiresIn(m, camX, camW) ==
    LET wait == CHOOSE w \in ReentryWait(m.kind) : TRUE
        u == IF m.kind = "bully" THEN BullyUpdate(m, TRUE, camX, camW, wait)
             ELSE OldManUpdate(m, TRUE, camX, camW, wait)
    IN u.currentState = "waiting" /\ Len(u.timers) > Len(m.timers)

\* sprite m as the enter callback or prepareReentry places it for an entry
\* from the right / left of the frame, in state st
PlacedAt(m, fromRight, camX, camW, st) ==
    [m EXCEPT !.x = SpawnX(m.kind, fromRight, camX, camW),
              !.patrolDirection = IF fromRight THEN -1 ELSE 1,
              !.currentState = st]

\* the viewport widths for which the spawn edges are examined, down to 0
FrameWidths == {0} \cup ViewportWidths

\* C19: whenever update() is about to run, for the camera where it is and
\* every viewport width down to 0, an NPC placed at the right spawn edge of
\* the frame, or at the left one, is not retired by that update() before
\* it has moved -- in the state it is in, and even if it were already
\* Attacking or Exiting.
C19_NotExitedAtSpawn ==
    npc.attached /\ pc = "timers" /\ Due(npc) = {} =>
        \A camW \in FrameWidths : \A fromRight \in BOOLEAN :
            \A st \in {npc.currentState, Attacking(npc.kind), "exiting"} :
                ~UpdateRetiresIn(PlacedAt(npc, fromRight, scrollX, camW, st),
                                 scrollX, camW)

\* under a camera that has scrolled, the enter callback has just placed the
\* NPC at the right spawn edge and update() is about to run
C19_Witness ==
    /\ pc = "timers"
    /\ Due(npc) = {}
    /\ scrollX > 0
    /\ npc.attached
    /\ npc.currentState = "entering"
    /\ npc.vx < 0
    /\ npc.x = SpawnX(npc.kind, TRUE, scrollX, width)


\* min(budget, floor(T / attackInterval) + 1) for the time T the NPC has
\* spent Attacking in this traversal; the OldMan has no budget
ExpectedProjectiles(m) ==
    LET n == (m.attackTime \div ThrowInterval(m.kind)) + 1
    IN IF m.kind = "bully" THEN Min(Bully_MAX_THROWS, n) ELSE n

\* at the end of a frame, an NPC that entered from the right under the
\* camera at 0 and is Attacking with the player always present has spawned
\* the expected number of projectiles
CountAsExpected ==
    /\ pc = "frame"
    /\ scrollX = 0
    /\ absent = 0
    /\ npc.attached
    /\ npc.patrolDirection = -1
    /\ npc.currentState = Attacking(npc.kind)
    => npc.spawned = ExpectedProjectiles(npc)

\* the enter callback runs on a live NPC
EnterCallbackRuns ==
    /\ npc.attached
    /\ npc'.attached
    /\ Count(npc'.timers, "enter") < Count(npc.timers, "enter")

\* C20: with scrollX = 0 and a viewport 800 wide held fixed, the enter
\* callback of an NPC entering from the right places it at x = 900 with
\* negative x velocity, and while it is Attacking the number of projectiles
\* of the traversal is min(budget, floor(T / attackInterval) + 1).
C20_ProjectileCount ==
    /\ CountAsExpected
    /\ [][/\ CountAsExpected'
          /\ (EnterCallbackRuns /\ scrollX = 0 /\ width = 800
                /\ npc.patrolDirection = -1
                => npc'.x = 900 /\ npc'.vx < 0)]_vars

\* the zone's own fields
ZoneFields(z) == <<z.isCreated, z.isActive, z.currentZoneNumber>>

C22_BulliesDisposedAfterCleanup ==
    \A j \in 1..Len(school.bullies) :
        school.bullies[j].occ \in school.swept =>
            school.bullies[j].sprite.isDestroyed

VictoryDeclared == game'.hasWon /\ ~game.hasWon

\* C24: victory is declared only for a student with confidence above 0 who
\* is not defeated, so victory and defeat never hold together
C24_VictoryNeedsConfidence ==
    /\ ~(game.hasWon /\ game.isDefeated)
    /\ [][/\ VictoryDeclared => game.confidence > 0 /\ ~game.isDefeated
          /\ ~(game'.hasWon /\ game'.isDefeated)]_vars

\* the student has walked off the left edge
OffScreen(g) == g.isDefeated /\ g.x < Student_OFFSCREEN_X

\* C25: 'gameOver' is emitted at most once, and only for a defeated student
\* who is left of x = -50
C25_GameOverOnce ==
    /\ game.gameOvers = 0
    /\ [][/\ game'.gameOvers <= 1
          /\ game'.gameOvers # game.gameOvers => OffScreen(game)]_vars

\* the event has been emitted, and the student, still off-screen, has since
\* been healed above 0 and hit again
C25_Witness ==
    /\ game.gameOvers = 1
    /\ OffScreen(game)
    /\ game.sinceHit = 0
    /\ game.confidence > 0

\* takeDamage returned true in this step
DamagingHit == game'.hitParity # game.hitParity

\* C30: while the student stumbles takeDamage changes neither the confidence
\* nor the meter; a takeDamage that returns true starts a 400 ms stumble and
\* comes no sooner than 400 ms after the one before
C30_NoDamageWhileStumbling ==
    [][/\ game.isStumbling =>
            \A amount \in Damages :
                /\ TakeDamage(game, amount).confidence = game.confidence
                /\ TakeDamage(game, amount).meter = game.meter
                /\ TakeDamage(game, amount).hitParity = game.hitParity
       /\ DamagingHit =>
            /\ game.sinceHit < 0 \/ game.sinceHit >= Student_STUMBLE_TIME
            /\ game'.isStumbling
            /\ game'.stumbles = <<Student_STUMBLE_TIME>>]_vars

\* a student who has been hit before is hit again and stumbles
C30_Witness ==
    /\ game.sinceHit = 0
    /\ game.isStumbling
    /\ game.confidence < Student_MAX_CONFIDENCE - Squirrel_DAMAGE
    /\ game.confidence > 0

\* a Newspaper or WordBubble is created in this step
ProjectileCreated == npc'.spawned > npc.spawned

\* C26: from recoverFromBackPain to the next startEntering the OldMan creates
\* no Newspaper
C26_NoThrowAfterRecovery ==
    [][npc.kind = "oldman" /\ npc.recovered /\ npc'.recovered
        => ~ProjectileCreated]_vars

\* a Squirrel is created in this step
SquirrelCreated == npc'.squirrels > npc.squirrels

OnEntrySide(m) ==
    \/ m.patrolDirection = -1 /\ m.x = scrollX + width + 100
    \/ m.patrolDirection = 1 /\ m.x = scrollX - 100

\* a step in which the enter callback of a live sprite ran
EnterFired ==
    /\ npc.attached
    /\ npc'.attached
    /\ Count(npc'.timers, "enter") < Count(npc.timers, "enter")

\* a step in which prepareReentry of a live sprite ran
ReentryFired ==
    /\ npc.attached
    /\ npc'.attached
    /\ Count(npc'.timers, "reentry") < Count(npc.timers, "reentry")

\* C28: whenever prepareReentry or the enter callback places an NPC, its
\* patrolDirection and x agree (-1 with scrollX + width + 100, +1 with
\* scrollX - 100); the velocity the enter callback sets has the sign of
\* patrolDirection; and a Bully keeps the patrolDirection of its
\* construction until its first re-entry.
C28_EntrySideAgrees ==
    [][/\ ReentryFired => OnEntrySide(npc')
       /\ EnterFired => /\ OnEntrySide(npc')
                        /\ npc'.vx * npc'.patrolDirection > 0
       /\ npc.kind = "bully" /\ npc'.patrols <= 1
            => npc'.patrolDirection = npc.patrolDirection]_vars

\* an OldMan on his second traversal has entered from the left, the side
\* his constructor never uses, and walks to the right
C28_Witness ==
    /\ npc.kind = "oldman"
    /\ npc.patrols = 2
    /\ npc.currentState = "patrolling"
    /\ npc.patrolDirection = 1
    /\ npc.vx > 0

\* a Bully constructed on the left re-enters from the right
C28_BullyBothSides ==
    /\ npc.kind = "bully"
    /\ npc.patrols = 2
    /\ npc.currentState = "charging"
    /\ npc.patrolDirection = -1
    /\ npc.vx < 0
    /\ npc.x < scrollX + width

\* the Newspaper lies inside the viewport of the camera
InViewport(n) ==
    /\ scrollX <= n.x
    /\ n.x <= scrollX + width
    /\ 0 <= n.y
    /\ n.y <= Config_HEIGHT

\* C29: a Newspaper that checkBounds removed was outside the camera's
\* viewport when it was removed, for every camera scrollX (a removed
\* Newspaper keeps the position it had).
C29_InViewNotRemoved ==
    paper.removedBy = "bounds" => ~InViewport(paper)

\* C31: currentConfidence stays within 0..maxConfidence under every
\* sequence of updateConfidence, setConfidence and reset, and isDepleted()
\* is true exactly when currentConfidence is 0.
C31_MeterInRange ==
    /\ 0 <= meter.currentConfidence
    /\ meter.currentConfidence <= meter.maxConfidence
    /\ IsDepleted(meter) <=> meter.currentConfidence = 0

\* a meter of maximum 60 holds one unit of confidence, between the two
\* clamps, and is not depleted
C31_Witness == meter.currentConfidence = 1 /\ meter.maxConfidence = 60

Hazard(it) == it.kind \in {"wordbubble", "squirrel"}
Treat(it) == it.kind \in {"powerup", "candybar"}

\* C32: a WordBubble or Squirrel calls takeDamage at most once, however
\* often its overlap callback runs, and never after its cleanup.
C32_DamageAtMostOnce ==
    Hazard(item) => item.applied <= 1 /\ ~item.late

\* a hazard has hit the student once and has been cleaned up
C32_Witness ==
    /\ Hazard(item)
    /\ item.applied = 1
    /\ item.isDestroyed
    /\ game.sinceHit >= 0

\* what cleanup() and the callbacks can change of an item
Settled(it) == <<it.used, it.isDestroyed, it.applied, it.late, it.destroys>>

\* C33: a PowerUp or FallingCandyBar calls heal at most once, also while
\* the collection tween runs, and once it is destroyed neither cleanup()
\* nor a callback changes it or the student's confidence again.
C33_BoostAtMostOnce ==
    /\ item.applied = 0
    /\ [][Treat(item) =>
            /\ item'.applied <= 1
            /\ item'.destroys <= 1
            /\ item.isDestroyed =>
                    /\ Settled(item') = Settled(item)
                    /\ game'.confidence = game.confidence]_vars

\* a PowerUp has been collected and its collection tween is running
C33_Witness ==
    /\ item.kind = "powerup"
    /\ item.applied = 1
    /\ item.tween > 0
    /\ ~item.isDestroyed

\* the fields of the library zone and what playerReachedLibrary has done
LibraryFields(g) == <<g.isCreated, g.hasWon, g.paused, g.victories>>

\* C34: playerReachedLibrary pauses, celebrates and schedules the victory
\* screen at most once, and once hasWon is set no checkZone call changes
\* anything of the zone.
C34_VictoryOnce ==
    /\ game.victories = 0
    /\ [][/\ game'.victories <= 1
          /\ game.hasWon => LibraryFields(game') = LibraryFields(game)]_vars

\* the student has won and the next frame has begun
C34_Witness ==
    /\ game.hasWon
    /\ game.victories = 1
    /\ game.paused
    /\ pc = "timers"

\* C37: with a meter connected from the start, Student.confidence equals
\* the meter's currentConfidence after every sequence of takeDamage and
\* heal calls.
C37_MeterFollowsStudent ==
    game.connected => game.confidence = game.meter

\* a heal has been clamped at the maximum after a hit that a stumble did
\* not block
C37_Witness ==
    /\ game.connected
    /\ game.sinceHit >= 0
    /\ game.confidence = Student_MAX_CONFIDENCE
    /\ game.meter = Student_MAX_CONFIDENCE

\* C38: once isDefeated is set it stays set, the student's velocity is that
\* of the defeat walk whatever the input, and confidence stays 0.
C38_DefeatAbsorbing ==
    [][game.isDefeated =>
            /\ game'.isDefeated
            /\ game'.confidence = 0
            /\ game'.vx \in {0, 0 - (Student_MOVE_SPEED \div 2)}]_vars

\* C35: the OldMan enters 'backpain' only from 'patrolling', and while he
\* is in 'backpain' his velocity is 0.
C35_BackPainOnlyFromPatrolling ==
    [][npc.kind = "oldman" /\ npc'.attached =>
            /\ npc'.currentState = "backpain" /\ npc.currentState # "backpain"
                    => npc.currentState = "patrolling"
            /\ npc'.currentState = "backpain" => npc'.vx = 0]_vars

\* C36: whatever way the camera scrolls, also when it scrolls right faster
\* than the NPC walks, an NPC that is Attacking reaches Waiting in the end
\* (frames and update() keep coming, the player is present, timers fire).
C36_AttackingReachesWaiting ==
    [](npc.currentState = Attacking(npc.kind)
        => <>(npc.currentState = "waiting"))

====
